---- MODULE Spec2Model ----
(***************************************************************************)
(* Model of rollback.py: the Rollback class (a LIFO registry of            *)
(* compensating steps with a context-manager protocol), together with the  *)
(* part of the asyncio runtime its scope exit depends on: whether the      *)
(* thread's event loop is running, obtainable, or already closed.          *)
(***************************************************************************)
EXTENDS Naturals, Sequences, FiniteSets

\* ---------------------------------------------------------------- bounds
\* Number of add_step registrations in one behaviour (step identities).
MaxSteps == 2
\* Longest traceback (number of entries) handed to scope exit.
MaxTrace == 2
\* Number of do_rollback invocations in progress at the same time.
MaxInv == 2
\* Number of steps pending below a step that registers a further step.
MaxOlder == 1

\* ------------------------------------------------------------ vocabulary
\* Callbacks a caller registers: "f" a plain function, "g" a coroutine
\* function, "bad" a plain function that raises, "reg" a plain function
\* that calls add_step on the registry while it runs, "greg" a coroutine
\* function that calls add_step on the registry and then suspends.
Actions == {"f", "g", "bad", "reg", "greg"}
Args == {0, 1}
\* the add_step calls a caller makes: each kind of callback, the plain
\* function with either argument
Registrations == {<<a, x>> \in Actions \X Args : a # "f" => x = 0}

\* asyncio.iscoroutinefunction(callback)
IsCoroutine(a) == a \in {"g", "greg"}
\* the callback raises when it is invoked
Raises(a) == a = "bad"
\* the callback registers one further step when it is invoked
Registers(a) == a \in {"reg", "greg"}

\* A traceback entry: the frame's f_locals.get("self") and f_code.co_name.
\* "self" is this registry, "other" another Rollback instance, "none" a
\* frame without a local named self.
Frames == { [this |-> "self", name |-> "do_rollback"],
            [this |-> "other", name |-> "do_rollback"],
            [this |-> "none", name |-> "caller"] }
\* traceback is None
NoTraceback == <<>>
RECURSIVE SeqsUpTo(_, _)
SeqsUpTo(S, n) ==
    IF n = 0 THEN {<<>>}
    ELSE LET shorter == SeqsUpTo(S, n - 1)
         IN shorter \cup {Append(t, e) : t \in shorter, e \in S}
\* the traceback objects of at most MaxTrace entries
Tracebacks == SeqsUpTo(Frames, MaxTrace) \ {NoTraceback}

CallerFrame == [this |-> "none", name |-> "caller"]
RollbackFrame == [this |-> "self", name |-> "do_rollback"]

VARIABLES
    steps,        \* self.steps: the pending (callback, args, kwargs) triples
    on_error,     \* self.on_error
    on_success,   \* self.on_success
    raise_error,  \* self.raise_error
    calls,        \* every callback invocation so far, in order of its start
    nid,          \* the number of add_step calls made so far
    loop,         \* the thread's event loop: "unset", "running" or "closed"
    pc,           \* the caller: "out" of any scope or "in" a guarded block
    variant,      \* the scope entered: "sync" (with), "async" (async with)
                  \* or "none" outside any scope
    invs,         \* the do_rollback invocations in progress in the event loop
    running,      \* the ids of the steps started and not yet completed
    last          \* the operation that completed last and its outcome

vars == <<steps, on_error, on_success, raise_error, calls, nid,
          loop, pc, variant, invs, running, last>>

registry == <<on_error, on_success, raise_error>>

\* ------------------------------------------------------------- helpers
NoStep == [id |-> 0, act |-> "f", arg |-> 0, by |-> 0]

\* the record kept of a completed scope exit: the trio it was called with,
\* how it started rollback, what it returned or which exception left it
Done(op, v, val, tb, fired, ret, exc) ==
    [op |-> op, variant |-> v, val |-> val, tb |-> tb, fired |-> fired,
     ret |-> ret, exc |-> exc, st |-> "none", obj |-> "none"]

\* the record kept of any other operation; st tells where a do_rollback
\* invocation stands after it: "done", "failed" or "awaiting"; obj is the
\* object a scope entry returned
Did(op, st) ==
    [op |-> op, variant |-> "none", val |-> FALSE, tb |-> NoTraceback,
     fired |-> "none", ret |-> FALSE,
     exc |-> IF st = "failed" THEN "E2" ELSE "none", st |-> st, obj |-> "none"]

Reverse(s) == [i \in 1..Len(s) |-> s[Len(s) + 1 - i]]

\* add_step calls still to be made by pending "reg" callbacks
Reserved(ss) == Cardinality({i \in DOMAIN ss : Registers(ss[i].act)})

\* the caller is suspended in an awaited do_rollback
CallerBlocked == \E i \in DOMAIN invs : invs[i].owner = "caller"

\* ------------------------------------------------------------- __init__
Init ==
    /\ steps = <<>>
    /\ on_error \in BOOLEAN
    /\ on_success \in BOOLEAN
    /\ raise_error \in BOOLEAN
    /\ calls = <<>>
    /\ nid = 0
    /\ loop = "unset"
    /\ pc = "out"
    /\ variant = "none"
    /\ invs = <<>>
    /\ running = {}
    /\ last = Did("init", "none")

\* ------------------------------------------------------------- add_step
\* self.steps.append((callback, args, kwargs))
\* id numbers the add_step calls; by is the id of the step that made the
\* call while it ran, 0 when the caller made it
prepend_step(ss, a, x, n) == <<[id |-> n, act |-> a, arg |-> x, by |-> 0]>> \o ss
append_step(ss, a, x, n) == Append(ss, [id |-> n, act |-> a, arg |-> x, by |-> 0])

add_step(a, x) ==
    /\ ~CallerBlocked
    /\ nid + Reserved(steps) + 1 + (IF Registers(a) THEN 1 ELSE 0) <= MaxSteps
    /\ steps' = append_step(steps, a, x, nid + 1)
    /\ nid' = nid + 1
    /\ last' = Did("add_step", "none")
    /\ UNCHANGED <<registry, calls, loop, pc, variant, invs, running>>

\* ---------------------------------------------------------- clear_steps
clear_steps_pop ==
    /\ ~CallerBlocked
    /\ steps' = SubSeq(steps, 1, Len(steps) - 1)
    /\ last' = Did("clear_steps", "none")
    /\ UNCHANGED <<registry, calls, nid, loop, pc, variant, invs, running>>
clear_steps ==
    /\ ~CallerBlocked
    /\ steps' = <<>>
    /\ last' = Did("clear_steps", "none")
    /\ UNCHANGED <<registry, calls, nid, loop, pc, variant, invs, running>>

\* ---------------------------------------------------------- do_rollback
\* list.pop(): the index of the element taken from self.steps
pop_first(ss) == CHOOSE k \in DOMAIN ss : \A j \in DOMAIN ss : k <= j
pop_below(ss) == IF Len(ss) > 1 THEN Len(ss) - 1 ELSE Len(ss)
pop(ss) == Len(ss)

without_below(ss, k) ==
    [i \in 1..(Len(ss) - 1) |-> IF i < k - 1 THEN ss[i] ELSE ss[i + 1]]
without(ss, k) == [i \in 1..(Len(ss) - 1) |-> IF i < k THEN ss[i] ELSE ss[i + 1]]

\* callback(*args, **kwargs): the invocation as the callback sees it
invoke(cb) == [id |-> cb.id, act |-> cb.act, arg |-> cb.arg, by |-> cb.by]

\* the step at the tail of ss was registered by the step with id r
registered_by(ss, r) == [ss EXCEPT ![Len(ss)].by = r]

\* the effect of a callback on the registry as it runs: "reg" and "greg"
\* call add_step
callback_effect_front(s, cb) ==
    IF Registers(cb.act)
    THEN [s EXCEPT !.steps = <<[id |-> s.nid + 1, act |-> "f", arg |-> cb.arg,
                                by |-> cb.id]>> \o @,
                   !.nid = @ + 1]
    ELSE s
callback_effect(s, cb) ==
    IF Registers(cb.act)
    THEN [s EXCEPT !.steps = registered_by(append_step(@, "f", cb.arg, s.nid + 1), cb.id),
                   !.nid = @ + 1]
    ELSE s

\* One run of the while loop of do_rollback from where it stands, up to the
\* point where it returns ("done"), a callback raises ("failed") or it is
\* suspended in an awaited coroutine ("awaiting").  With inline = TRUE the
\* coroutine is driven by asyncio.run in a loop of its own, where nothing
\* else runs, so every awaited callback completes before the next pop.
RECURSIVE do_rollback(_, _)
\* the callback raised: no handler encloses the call, so the exception
\* leaves the while loop and do_rollback with what was popped so far
on_raise_go_on(called, inline) == do_rollback(called, inline)
on_raise_return(called, inline) == [called EXCEPT !.st = "done", !.cur = NoStep]
on_raise(called, inline) == [called EXCEPT !.st = "failed", !.cur = NoStep]

\* await callback(*args, **kwargs) inside the event loop: the coroutine is
\* started and do_rollback is suspended until it completes
await_callback_spawn(called, cb) ==
    do_rollback([called EXCEPT !.running = @ \cup {cb.id}], FALSE)
await_callback(called, cb) ==
    [called EXCEPT !.st = "awaiting", !.cur = cb, !.running = @ \cup {cb.id}]

do_rollback(s, inline) ==
    IF s.steps = <<>>
    THEN [s EXCEPT !.st = "done", !.cur = NoStep]
    ELSE LET k == pop(s.steps)
             cb == s.steps[k]
             called == [s EXCEPT !.steps = without(s.steps, k),
                                 !.calls = Append(@, invoke(cb))]
         IN IF IsCoroutine(cb.act)
            THEN IF inline
                 THEN do_rollback(callback_effect(called, cb), inline)
                 ELSE await_callback(callback_effect(called, cb), cb)
            ELSE IF Raises(cb.act)
                 THEN on_raise(called, inline)
                 ELSE do_rollback(callback_effect(called, cb), inline)

\* the state a do_rollback invocation works on
Here ==
    [steps |-> steps, calls |-> calls, nid |-> nid, running |-> running,
     st |-> "ready", cur |-> NoStep]

\* a new invocation; for a task, muted tells that the scope exit that
\* created it was called with an exception and ended the scope normally
NewInv(owner, muted) == [owner |-> owner, st |-> "ready", cur |-> NoStep, muted |-> muted]

\* invocation i has run one stretch of do_rollback with result r: it stays
\* in the loop while it awaits a callback and leaves it otherwise
Ran(is, i, r) ==
    IF r.st = "awaiting"
    THEN [is EXCEPT ![i] = [owner |-> is[i].owner, st |-> r.st, cur |-> r.cur,
                            muted |-> is[i].muted]]
    ELSE without(is, i)

\* The caller runs do_rollback itself.  Inside a running loop it awaits the
\* coroutine; otherwise it drives it with asyncio.run, which leaves the
\* thread without a current event loop.
call_do_rollback ==
    /\ ~CallerBlocked
    /\ IF loop = "running"
       THEN /\ Len(invs) < MaxInv
            /\ LET is == Append(invs, NewInv("caller", FALSE))
                   r == do_rollback(Here, FALSE)
               IN /\ steps' = r.steps
                  /\ calls' = r.calls
                  /\ nid' = r.nid
                  /\ invs' = Ran(is, Len(is), r)
                  /\ running' = r.running
                  /\ last' = Did("await_do_rollback", r.st)
            /\ UNCHANGED loop
       ELSE /\ LET r == do_rollback(Here, TRUE)
               IN /\ steps' = r.steps
                  /\ calls' = r.calls
                  /\ nid' = r.nid
                  /\ last' = Did("do_rollback", r.st)
            /\ loop' = "closed"
            /\ UNCHANGED <<invs, running>>
    /\ UNCHANGED <<registry, pc, variant>>

\* the event loop starts a task that scope exit created
task_start(i) ==
    /\ loop = "running"
    /\ invs[i].st = "ready"
    /\ LET r == do_rollback(Here, FALSE)
       IN /\ steps' = r.steps
          /\ calls' = r.calls
          /\ nid' = r.nid
          /\ invs' = Ran(invs, i, r)
          /\ running' = r.running
          /\ last' = Did("task_start", r.st)
    /\ UNCHANGED <<registry, loop, pc, variant>>

\* the coroutine an invocation awaits completes; its while loop goes on
step_done(i) ==
    /\ loop = "running"
    /\ invs[i].st = "awaiting"
    /\ LET r == do_rollback([Here EXCEPT !.running = @ \ {invs[i].cur.id}], FALSE)
       IN /\ steps' = r.steps
          /\ calls' = r.calls
          /\ nid' = r.nid
          /\ invs' = Ran(invs, i, r)
          /\ running' = r.running
          /\ last' = Did("step_done", r.st)
    /\ UNCHANGED <<registry, loop, pc, variant>>

\* ------------------------------------------------------ the event loop
\* the caller enters asyncio.run(main()): what follows runs in the loop
start_loop ==
    /\ loop # "running"
    /\ pc = "out"
    /\ loop' = "running"
    /\ last' = Did("start_loop", "none")
    /\ UNCHANGED <<steps, registry, calls, nid, pc, variant, invs, running>>

\* main() returns: asyncio.run cancels the tasks left and closes the loop
stop_loop ==
    /\ loop = "running"
    /\ pc = "out"
    /\ ~CallerBlocked
    /\ loop' = "closed"
    /\ invs' = <<>>
    /\ running' = {}
    /\ last' = Did("stop_loop", "none")
    /\ UNCHANGED <<steps, registry, calls, nid, pc, variant>>

\* ------------------------------------------------- the context manager
\* _frames: the frames the generator yields; it steps to tb_next before
\* each yield, so the entry the traceback starts with is never yielded
_frames(traceback) == Tail(traceback)

\* _method_in_traceback(name, traceback)
_method_in_traceback(name, traceback) ==
    \E i \in DOMAIN _frames(traceback) :
        /\ _frames(traceback)[i].this = "self"
        /\ _frames(traceback)[i].name = name

\* error = bool(traceback is not None)
error_of(exception_value, traceback) == traceback # NoTraceback

\* (error and self.on_error) or (self.on_success and not error)
policy_any_flag(error) == on_error \/ on_success
policy(error) == (error /\ on_error) \/ (on_success /\ ~error)

\* suppress_error = not self.raise_error
suppress_setting_raise == raise_error
suppress_setting == ~raise_error

\* asyncio.get_event_loop().is_running(), create_task and asyncio.run: how
\* the rollback is started.  In a thread whose loop an earlier asyncio.run
\* has closed, get_event_loop raises RuntimeError.
how_always_task(lp) == IF lp = "closed" THEN "lookup_failed" ELSE "task"
how_never_task(lp) == IF lp = "closed" THEN "lookup_failed" ELSE "inline"
how(lp) ==
    IF lp = "closed" THEN "lookup_failed"
    ELSE IF lp = "running" THEN "task" ELSE "inline"

\* _handle_exit: what the call leaves behind and what it returns or raises
_handle_exit(exception_value, traceback) ==
    LET error == error_of(exception_value, traceback)
        suppress_error == suppress_setting
        fired == IF policy(error) THEN how(loop) ELSE "none"
        ran == IF fired = "inline" THEN do_rollback(Here, TRUE) ELSE Here
        exc == IF fired = "lookup_failed" THEN "RuntimeError"
               ELSE IF ran.st = "failed" THEN "E2" ELSE "none"
    IN [fired |-> fired,
        exc |-> exc,
        ret |-> IF exc # "none" THEN FALSE
                ELSE IF error /\ suppress_error
                     THEN ~_method_in_traceback("do_rollback", traceback)
                     ELSE suppress_error,
        steps |-> ran.steps, calls |-> ran.calls, nid |-> ran.nid,
        loop |-> IF fired = "inline" THEN "closed" ELSE loop]

\* asyncio.create_task(self.do_rollback()): the loop's tasks after an exit
\* that was called with an exception (raised) and returned ret or raised exc
create_task(h, raised, ret, exc) ==
    IF h.fired = "task"
    THEN Append(invs, NewInv("task", raised /\ ret /\ exc = "none"))
    ELSE invs

\* the trios a scope exit is called with: (None, None, None), an exception
\* with its traceback, and an exception that carries no traceback
ExitTrios ==
    {<<FALSE, NoTraceback>>, <<TRUE, NoTraceback>>, <<TRUE, <<CallerFrame>> >>,
     <<TRUE, <<CallerFrame, RollbackFrame>> >>}

\* the same with every traceback of at most MaxTrace entries
TraceTrios ==
    {<<FALSE, NoTraceback>>, <<TRUE, NoTraceback>>} \cup {<<TRUE, t>> : t \in Tracebacks}

\* return self: the object the with statement binds
enter_result_other == "other"
enter_result == "self"

\* the record kept of a scope entry
Entered(op) == [Did(op, "none") EXCEPT !.obj = enter_result]

__enter__ ==
    /\ pc = "out"
    /\ ~CallerBlocked
    /\ pc' = "in"
    /\ variant' = "sync"
    /\ last' = Entered("enter")
    /\ UNCHANGED <<steps, registry, calls, nid, loop, invs, running>>

__aenter__ ==
    /\ pc = "out"
    /\ ~CallerBlocked
    /\ loop = "running"
    /\ pc' = "in"
    /\ variant' = "async"
    /\ last' = Entered("aenter")
    /\ UNCHANGED <<steps, registry, calls, nid, loop, invs, running>>

\* return self._handle_exit(exception_type, exception_value, traceback)
__exit__(exception_value, traceback) ==
    /\ pc = "in"
    /\ variant = "sync"
    /\ ~CallerBlocked
    /\ LET h == _handle_exit(exception_value, traceback)
       IN /\ (h.fired = "task" => Len(invs) < MaxInv)
          /\ steps' = h.steps
          /\ calls' = h.calls
          /\ nid' = h.nid
          /\ invs' = create_task(h, traceback # NoTraceback, h.ret, h.exc)
          /\ loop' = h.loop
          /\ last' = Done("exit", "sync", exception_value, traceback, h.fired,
                          h.ret, h.exc)
    /\ pc' = "out"
    /\ variant' = "none"
    /\ UNCHANGED <<registry, running>>

\* return await self._handle_exit(...): _handle_exit is a plain method, so
\* the operand of await is the bool it returned and await raises TypeError
__aexit__(exception_value, traceback) ==
    /\ pc = "in"
    /\ variant = "async"
    /\ ~CallerBlocked
    /\ LET h == _handle_exit(exception_value, traceback)
           exc == IF h.exc # "none" THEN h.exc ELSE "TypeError"
       IN /\ (h.fired = "task" => Len(invs) < MaxInv)
          /\ steps' = h.steps
          /\ calls' = h.calls
          /\ nid' = h.nid
          /\ invs' = create_task(h, traceback # NoTraceback, FALSE, exc)
          /\ loop' = h.loop
          /\ last' = Done("exit", "async", exception_value, traceback, h.fired,
                          FALSE, exc)
    /\ pc' = "out"
    /\ variant' = "none"
    /\ UNCHANGED <<registry, running>>

Next ==
    \/ \E r \in Registrations : add_step(r[1], r[2])
    \/ clear_steps
    \/ call_do_rollback
    \/ \E i \in DOMAIN invs : task_start(i)
    \/ \E i \in DOMAIN invs : step_done(i)
    \/ start_loop
    \/ stop_loop
    \/ __enter__
    \/ __aenter__
    \/ \E t \in ExitTrios : __exit__(t[1], t[2])
    \/ \E t \in ExitTrios : __aexit__(t[1], t[2])

Spec == Init /\ [][Next]_vars

\* ---------------------------------------------- the exit decision alone
\* A scope that is open with one step pending, in every configuration and
\* every state of the thread's event loop, left with every trio whose
\* traceback has at most MaxTrace entries.
InitTrace ==
    /\ steps = append_step(<<>>, "f", 0, 1)
    /\ on_error \in BOOLEAN
    /\ on_success \in BOOLEAN
    /\ raise_error \in BOOLEAN
    /\ calls = <<>>
    /\ nid = 1
    /\ loop \in {"unset", "running", "closed"}
    /\ pc = "in"
    /\ variant \in {"sync", "async"}
    /\ (variant = "async" => loop = "running")
    /\ invs = <<>>
    /\ running = {}
    /\ last = Entered("enter")

NextTrace ==
    \/ \E t \in TraceTrios : __exit__(t[1], t[2])
    \/ \E t \in TraceTrios : __aexit__(t[1], t[2])

SpecTrace == InitTrace /\ [][NextTrace]_vars

\* ------------------------------------- steps that register further steps
\* the lists of at most n steps that add_step calls of the caller build out
\* of a plain function and a coroutine function
RECURSIVE PendingUpTo(_)
PendingUpTo(n) ==
    IF n = 0 THEN {<<>>}
    ELSE LET shorter == PendingUpTo(n - 1)
         IN shorter \cup {append_step(ss, a, 0, Len(ss) + 1) :
                              ss \in shorter, a \in {"f", "g"}}

\* A registry, in every configuration, on which the caller has registered
\* at most MaxOlder steps and then a step that registers a further step;
\* from there on everything but add_step calls of the caller.
InitReg ==
    /\ \E older \in PendingUpTo(MaxOlder), a \in {"reg", "greg"} :
          steps = append_step(older, a, 0, Len(older) + 1)
    /\ on_error \in BOOLEAN
    /\ on_success \in BOOLEAN
    /\ raise_error \in BOOLEAN
    /\ calls = <<>>
    /\ nid = Len(steps)
    /\ loop = "unset"
    /\ pc = "out"
    /\ variant = "none"
    /\ invs = <<>>
    /\ running = {}
    /\ last = Did("add_step", "none")

NextReg ==
    \/ clear_steps
    \/ call_do_rollback
    \/ \E i \in DOMAIN invs : task_start(i)
    \/ \E i \in DOMAIN invs : step_done(i)
    \/ start_loop
    \/ stop_loop
    \/ __enter__
    \/ __aenter__
    \/ \E t \in ExitTrios : __exit__(t[1], t[2])
    \/ \E t \in ExitTrios : __aexit__(t[1], t[2])

SpecReg == InitReg /\ [][NextReg]_vars

TypeOK ==
    /\ loop \in {"unset", "running", "closed"}
    /\ pc \in {"out", "in"}
    /\ Len(invs) <= MaxInv
    /\ nid <= MaxSteps + MaxOlder + 2
    /\ (loop # "running" => invs = <<>>)

\* ------------------------------------------------------------ properties
\* the callback invocations made by the step from this state to the next
NewCalls == SubSeq(calls', Len(calls) + 1, Len(calls'))

\* steps that neither raise nor register further steps
Plain(ss) == \A i \in DOMAIN ss : ~Raises(ss[i].act) /\ ~Registers(ss[i].act)

HasRaising(ss) == \E i \in DOMAIN ss : Raises(ss[i].act)

\* a frame of this registry's do_rollback at any position of the traceback
HasSelfRollbackFrame(tb) == \E i \in DOMAIN tb : tb[i] = RollbackFrame

\* the step from this state to the next is a scope exit
ExitStep == pc = "in" /\ last'.op = "exit"

\* the step is one complete do_rollback, driven by asyncio.run
CompleteRollback ==
    last'.op = "do_rollback" \/ (ExitStep /\ last'.fired = "inline")

\* the step is a stretch of a do_rollback invocation inside the event loop
LoopStretch == last'.op \in {"await_do_rollback", "task_start", "step_done"}

\* the last scope exit was called with an exception and ended normally
Swallowed == last.op = "exit" /\ last.val /\ last.exc = "none" /\ last.ret

C3_Original ==
    (last.op = "exit" /\ last.exc = "none" /\ ~raise_error /\ last.tb # NoTraceback)
        => (~last.ret <=> HasSelfRollbackFrame(last.tb))

\* C4 as stated: with raise_error=false and on_error=true, when the guarded
\* block raised and a step raises during the rollback the exit started, the
\* scope does not end normally, whether or not a scheduler is running.
C4_Original ==
    [][ /\ (ExitStep /\ ~raise_error /\ on_error /\ last'.tb # NoTraceback
              /\ last'.fired = "inline" /\ HasRaising(steps))
              => last'.exc # "none"
        /\ (LoopStretch /\ last'.st = "failed" /\ ~raise_error /\ on_error)
              => \A i \in DOMAIN invs :
                    (invs' = without(invs, i) /\ invs[i].owner = "task")
                        => ~invs[i].muted ]_vars

\* C4 amended: with raise_error=false and on_error=true, when the guarded
\* block raised, a pending step raises and no scheduler is running at exit
\* time, the scope does not end normally: the exit raises the step's error
\* after running rollback, or RuntimeError when the loop lookup fails.
C4_InlineStepErrorPropagates ==
    [][ (ExitStep /\ ~raise_error /\ on_error /\ last'.tb # NoTraceback
            /\ loop # "running" /\ HasRaising(steps))
          => /\ last'.exc # "none"
             /\ loop = "unset" => (last'.fired = "inline" /\ last'.exc = "E2") ]_vars

\* an exit with raise_error=false and on_error=true ran rollback itself and
\* a step's error left the exit
C4_Witness ==
    /\ last.op = "exit"
    /\ ~raise_error /\ on_error
    /\ last.tb # NoTraceback
    /\ last.fired = "inline"
    /\ last.exc = "E2"
    /\ calls # <<>> /\ Raises(calls[Len(calls)].act)

\* C5: when the async exit fires rollback, every pending step has run and
\* steps is empty when the exit returns, and the exit returns its decision.
C5_Original ==
    (last.op = "exit" /\ last.variant = "async" /\ last.fired # "none")
        => (steps = <<>> /\ last.exc = "none")

\* the blocking exit is taken while a scheduler runs: rollback is scheduled
\* as a task and the exit does not wait for it
OnlyScheduled == variant = "sync" /\ loop = "running"

\* C6: with on_error=true and raise_error=false, a guarded block that raises
\* with one step S registered leaves the scope with S invoked once, steps
\* empty and the exception suppressed (wherever the exit is to run rollback
\* itself rather than schedule it).
C6_Original ==
    [][ (ExitStep /\ ~OnlyScheduled /\ on_error /\ ~raise_error
            /\ last'.tb # NoTraceback /\ ~HasSelfRollbackFrame(last'.tb)
            /\ Len(steps) = 1 /\ Plain(steps))
          => (NewCalls = steps /\ steps' = <<>>
              /\ last'.exc = "none" /\ last'.ret) ]_vars

\* C7: with on_success=true, a guarded block that completes normally with
\* one step S registered leaves the scope with S invoked once and steps
\* empty (wherever the exit is to run rollback itself rather than schedule
\* it).
C7_Original ==
    [][ (ExitStep /\ ~OnlyScheduled /\ on_success /\ ~last'.val /\ last'.tb = NoTraceback
            /\ Len(steps) = 1 /\ Plain(steps))
          => (NewCalls = steps /\ steps' = <<>> /\ last'.exc = "none") ]_vars

\* C8: with on_error=false, on_success=false and raise_error=true a scope
\* exit fires no rollback: it invokes no step, schedules nothing, leaves
\* steps as it was and does not suppress an exception of the guarded block.
C8_DefaultExitDoesNothing ==
    [][ (ExitStep /\ ~on_error /\ ~on_success /\ raise_error)
          => /\ last'.fired = "none"
             /\ steps' = steps
             /\ calls' = calls
             /\ invs' = invs
             /\ loop' = loop
             /\ last'.val => ~(last'.exc = "none" /\ last'.ret) ]_vars

\* a default-configured scope was left by an exception with a step pending
C8_Witness ==
    /\ last.op = "exit"
    /\ ~on_error /\ ~on_success /\ raise_error
    /\ last.tb # NoTraceback
    /\ steps # <<>>
    /\ calls = <<>>
    /\ ~last.ret

\* C9: with raise_error=true the exception of the guarded block is the one
\* that leaves the scope in every case: the exit returns do-not-suppress and
\* raises nothing of its own.
C9_Original ==
    (last.op = "exit" /\ raise_error /\ last.val /\ last.tb # NoTraceback)
        => (last.exc = "none" /\ ~last.ret)

\* C10: the exception of the guarded block is swallowed only when
\* raise_error=false and the trace holds no frame of this instance's
\* do_rollback; with raise_error=false and on_error=false such an exception
\* is suppressed and execution continues after the scope.
C10_Original ==
    /\ Swallowed => (~raise_error /\ ~HasSelfRollbackFrame(last.tb))
    /\ (last.op = "exit" /\ ~raise_error /\ ~on_error
          /\ last.tb # NoTraceback /\ ~HasSelfRollbackFrame(last.tb))
        => Swallowed

\* the invocation that the step from this state to the next ends with a
\* step's error is a task of the event loop
TaskFailed ==
    /\ LoopStretch
    /\ last'.st = "failed"
    /\ \E i \in DOMAIN invs : invs' = without(invs, i) /\ invs[i].owner = "task"

\* C11: a blocking scope exit that fires rollback while the event loop runs
\* only schedules it: at return no step has been invoked and steps is
\* unchanged, the new task has not started, the exit raises nothing and its
\* decision is the one the flags and the trace give, whatever the steps are;
\* a step's error in the task later leaves the caller where it was.
C11_OnlyScheduledInRunningLoop ==
    [][ /\ (ExitStep /\ OnlyScheduled /\ last'.fired # "none")
              => /\ last'.fired = "task"
                 /\ steps' = steps /\ calls' = calls /\ nid' = nid
                 /\ invs' = Append(invs, invs'[Len(invs')])
                 /\ invs'[Len(invs')].owner = "task"
                 /\ invs'[Len(invs')].st = "ready"
                 /\ last'.exc = "none"
                 /\ last'.ret = (~raise_error
                                  /\ (last'.tb # NoTraceback =>
                                        ~_method_in_traceback("do_rollback", last'.tb)))
        /\ TaskFailed
              => /\ pc' = pc /\ variant' = variant
                 /\ CallerBlocked' = CallerBlocked ]_vars

\* a blocking exit inside the running loop scheduled rollback and returned
\* with a raising step still pending and nothing invoked
C11_Witness ==
    /\ last.op = "exit" /\ last.variant = "sync"
    /\ last.fired = "task"
    /\ loop = "running"
    /\ HasRaising(steps)
    /\ calls = <<>>
    /\ invs # <<>> /\ invs[Len(invs)].st = "ready"

\* steps among which none registers further steps
NoneRegisters(ss) == \A i \in DOMAIN ss : ~Registers(ss[i].act)

\* the pending step that raises and is popped before any other that raises
TopRaising(ss) ==
    CHOOSE k \in DOMAIN ss :
        Raises(ss[k].act) /\ \A j \in DOMAIN ss : (j > k => ~Raises(ss[j].act))

\* the identities of the steps of a sequence
Ids(ss) == {ss[i].id : i \in DOMAIN ss}

C13_AtMostOnce ==
    \A i, j \in DOMAIN calls : calls[i].id = calls[j].id => i = j

\* a rollback task scheduled by scope exit and a direct do_rollback are both
\* suspended in a step of the same registry, each in a different one
C13_Witness ==
    /\ Len(calls) = 2
    /\ \E i, j \in DOMAIN invs :
          /\ invs[i].owner = "task" /\ invs[i].st = "awaiting"
          /\ invs[j].owner = "caller" /\ invs[j].st = "awaiting"
          /\ invs[i].cur.id # invs[j].cur.id

\* the step from this state to the next is a direct do_rollback call
DirectRollback == last'.op \in {"do_rollback", "await_do_rollback"}

\* C14: clear_steps leaves steps empty, invokes nothing and leaves the
\* policy flags as they were; applied to a registry it has just cleared it
\* changes nothing; and a do_rollback that follows it invokes nothing.
C14_ClearStepsDiscards ==
    [][ /\ last'.op = "clear_steps"
              => /\ steps' = <<>>
                 /\ calls' = calls
                 /\ registry' = registry
                 /\ (last.op = "clear_steps" => UNCHANGED vars)
        /\ (last.op = "clear_steps" /\ DirectRollback)
              => /\ calls' = calls
                 /\ steps' = <<>>
                 /\ last'.st = "done" ]_vars

\* two steps were registered and discarded, and the do_rollback that
\* followed invoked nothing
C14_Witness ==
    /\ last.op = "do_rollback"
    /\ last.st = "done"
    /\ nid = 2
    /\ calls = <<>>
    /\ steps = <<>>

\* the step ends a do_rollback invocation that returns normally
RollbackReturns ==
    \/ (DirectRollback \/ LoopStretch) /\ last'.st = "done"
    \/ ExitStep /\ last'.fired = "inline" /\ last'.exc = "none"

EnterStep == pc = "out" /\ last'.op \in {"enter", "aenter"}

\* C16: scope entry, blocking or suspendable, returns the registry itself
\* and leaves steps, the three policy flags and everything else the
\* registry works on as they were.
C16_EnterReturnsSelfOnly ==
    [][ EnterStep
          => /\ last'.obj = "self"
             /\ steps' = steps
             /\ registry' = registry
             /\ calls' = calls
             /\ invs' = invs
             /\ loop' = loop ]_vars

\* a suspendable scope was entered with a step pending
C16_Witness ==
    /\ last.op = "aenter"
    /\ pc = "in" /\ variant = "async"
    /\ last.obj = "self"
    /\ steps # <<>>

\* Every step the transition starts was registered after every step that
\* was pending before and is left pending, and the steps it starts are
\* started newest first, save for a step that was registered while the
\* transition ran.
StartsLIFO ==
    /\ \A k \in DOMAIN NewCalls : \A i \in DOMAIN steps' :
          steps'[i].id <= nid => NewCalls[k].id > steps'[i].id
    /\ \A j, k \in DOMAIN NewCalls :
          j < k => (NewCalls[j].id > NewCalls[k].id \/ NewCalls[k].id > nid)

\* C17 as stated: in every execution, also with several do_rollback
\* invocations active on the registry, steps are started in strict LIFO
\* order and no two steps are in progress at the same time.
C17_Original ==
    [][ StartsLIFO /\ Cardinality(running') <= 1 ]_vars

\* C17 amended: in every execution steps are started in strict LIFO order,
\* and there is at most one step in progress per active do_rollback
\* invocation, so no two steps are in progress at the same time while a
\* single invocation is active.
C17_LIFOStartsOnePerInvocation ==
    [][ StartsLIFO /\ Cardinality(running') <= Len(invs') ]_vars

\* a rollback task and a direct do_rollback each have a step in progress:
\* the newer step was started first, the older one while it was running
C17_Witness ==
    /\ Cardinality(running) = 2
    /\ Len(invs) = 2
    /\ Len(calls) = 2
    /\ calls[1].id = 2 /\ calls[2].id = 1

\* the do_rollback invocations suspended in a step
Suspended(is) == {i \in DOMAIN is : is[i].st = "awaiting"}

\* C18: an invocation that starts a suspendable step starts nothing more
\* until that step has completed: of the steps a transition starts, all but
\* the last have completed when it ends, the last is still in progress only
\* if the invocation is suspended in it, and every step in progress is the
\* step one suspended invocation waits for.
C18_SuspendedUntilStepCompletes ==
    [][ /\ \A k \in DOMAIN NewCalls :
              k < Len(NewCalls) => NewCalls[k].id \notin running'
        /\ (NewCalls # <<>> /\ NewCalls[Len(NewCalls)].id \in running')
              => /\ last'.st = "awaiting"
                 /\ \E i \in Suspended(invs') :
                       invs'[i].cur.id = NewCalls[Len(NewCalls)].id
        /\ running' = {invs'[i].cur.id : i \in Suspended(invs')}
        /\ Cardinality(running') = Cardinality(Suspended(invs')) ]_vars

\* a direct do_rollback, the only invocation, is suspended in the newer of
\* two suspendable steps and the older one is still pending
C18_Witness ==
    /\ Len(invs) = 1
    /\ invs[1].owner = "caller" /\ invs[1].st = "awaiting"
    /\ running = {2}
    /\ Len(calls) = 1 /\ calls[1].id = 2
    /\ Len(steps) = 1 /\ steps[1].id = 1 /\ IsCoroutine(steps[1].act)

\* the step from this state to the next is an add_step call of the caller
AddStep == last'.op = "add_step" /\ nid' = nid + 1

\* C19: add_step adds exactly one triple, one of those a caller passes, at
\* the tail of steps, leaves the steps pending before in place and in
\* order, leaves the policy flags unchanged and invokes nothing; and every
\* step is invoked with the callback and the arguments of its triple.
C19_AddStepOnlyAppends ==
    [][ /\ AddStep
              => /\ Len(steps') = Len(steps) + 1
                 /\ SubSeq(steps', 1, Len(steps)) = steps
                 /\ steps'[Len(steps')].id = nid'
                 /\ <<steps'[Len(steps')].act, steps'[Len(steps')].arg>> \in Registrations
                 /\ registry' = registry
                 /\ calls' = calls
                 /\ running' = running
        /\ \A k \in DOMAIN NewCalls : \A i \in DOMAIN steps :
              steps[i].id = NewCalls[k].id
                  => (NewCalls[k].act = steps[i].act /\ NewCalls[k].arg = steps[i].arg) ]_vars

\* add_step appended a step with argument 1 behind a pending step that was
\* registered with argument 0, and nothing has been invoked
C19_Witness ==
    /\ last.op = "add_step"
    /\ Len(steps) = 2
    /\ steps[1].id = 1 /\ steps[1].arg = 0
    /\ steps[2].id = 2 /\ steps[2].arg = 1
    /\ calls = <<>>

\* the step registered by the step that NewCalls[k] invokes comes next in
\* NewCalls, ahead of every step that was pending below the registering one
NewStepNext(k) ==
    /\ k < Len(NewCalls)
    /\ NewCalls[k + 1].by = NewCalls[k].id
    /\ \A i \in DOMAIN steps :
          steps[i].id < NewCalls[k].id
              => steps[i].id \notin Ids(SubSeq(NewCalls, 1, k + 1))

\* C20 as stated: a step registered by an executing step is invoked by the
\* same do_rollback invocation right after the registering step (in the
\* same stretch, or first thing when that invocation resumes from the
\* registering step); do_rollback returns only with steps empty; and a
\* complete do_rollback makes one invocation per pending step and one per
\* step registered meanwhile.
C20_Original ==
    [][ /\ \A k \in DOMAIN NewCalls :
              NewCalls[k].by # 0
                  => IF k > 1
                     THEN NewCalls[k - 1].id = NewCalls[k].by
                     ELSE /\ calls # <<>>
                          /\ calls[Len(calls)].id = NewCalls[k].by
                          /\ NewCalls[k].by \in running
                          /\ NewCalls[k].by \notin running'
        /\ RollbackReturns => steps' = <<>>
        /\ (CompleteRollback /\ ~HasRaising(steps))
              => Len(NewCalls) = Len(steps) + Reserved(steps) ]_vars

\* C20 amended: a step registered by an executing plain step, or by any
\* step of a do_rollback that asyncio.run drives, is invoked by the same
\* invocation right after the registering step and before every older
\* pending step; a coroutine step that registers inside the event loop
\* leaves the new step at the tail of steps when it suspends; do_rollback
\* returns only with steps empty; and a complete do_rollback makes one
\* invocation per pending step and one per step registered meanwhile.
C20_NewStepRunsNext ==
    [][ /\ \A k \in DOMAIN NewCalls :
              (Registers(NewCalls[k].act)
                  /\ (CompleteRollback \/ ~IsCoroutine(NewCalls[k].act)))
                  => NewStepNext(k)
        /\ (LoopStretch /\ last'.st = "awaiting"
              /\ Registers(NewCalls[Len(NewCalls)].act))
              => /\ steps' # <<>>
                 /\ steps'[Len(steps')].by = NewCalls[Len(NewCalls)].id
        /\ RollbackReturns => steps' = <<>>
        /\ (CompleteRollback /\ ~HasRaising(steps))
              => Len(NewCalls) = Len(steps) + Reserved(steps) ]_vars

\* one do_rollback over an older step and a registering step invoked the
\* registering step, then the step it registered, then the older step
C20_Witness ==
    /\ last.op = "do_rollback" /\ last.st = "done"
    /\ steps = <<>>
    /\ Len(calls) = 3
    /\ calls[1].id = 2 /\ Registers(calls[1].act)
    /\ calls[2].id = 3 /\ calls[2].by = 2
    /\ calls[3].id = 1
====
